---------------------------- MODULE Spec2Model ----------------------------
(***************************************************************************)
(* Model of the task priority engine of backend/tasks/scoring.py:          *)
(* the component scores, the dependency graph analysis (three-colour DFS   *)
(* cycle detection, fan-in map), the score composer and analyze_tasks.     *)
(*                                                                         *)
(* Numbers.  Component scores are the reals of the code multiplied by      *)
(* Scale (= 63000, a common multiple of every denominator the code uses:   *)
(* 7, 9, 30, 1000 and the fan-in maxima 1..10), so urgency, importance and *)
(* dependency scores are exact integers.  The effort score, a logarithm,   *)
(* is tabulated to the nearest 1/Scale for whole hours.  Weights are in    *)
(* hundredths.  A final score f of the code is the integer f * Scale here  *)
(* ("score numerator"); the rounded score of an analyzed entry is in       *)
(* hundredths of a point.  Binary floating point error is not modelled.    *)
(***************************************************************************)
EXTENDS Integers, Sequences, FiniteSets, TLC

VARIABLES
    batch,            \* the input list of raw task records (never modified)
    strategy,         \* the strategy name of the request
    custom_weights,   \* <<>> (None) or <<w>>: the caller's weight override
    pc,               \* position inside analyze_tasks
    weights,          \* the resolved weights
    warnings,         \* the list of warnings
    valid_tasks,      \* the normalized tasks that have an identifier
    color,            \* detect_circular_dependencies: colour of each identifier
    cycles,           \* detect_circular_dependencies: list of recorded cycles
    tasks_in_cycles,  \* set of identifiers found in a recorded cycle
    dependency_map,   \* build_dependency_map: identifier -> counter
    max_dependents,   \* build_dependency_map: the normalizer
    missing_deps,     \* build_dependency_map: list of absent identifiers
    analyzed_tasks,   \* the analyzed entries
    result,           \* the returned structure (once pc = "done")
    previous,         \* results of earlier runs on the same input
    probe,            \* compute_task_score applied to one task (SpecScore)
    suggestions,      \* get_top_suggestions applied to the result (SpecSuggest)
    calls             \* detect_circular_dependencies: the calls of dfs so far

vars == <<batch, strategy, custom_weights, pc, weights, warnings, valid_tasks,
          color, cycles, tasks_in_cycles, dependency_map, max_dependents,
          missing_deps, analyzed_tasks, result, previous, probe, suggestions, calls>>

-----------------------------------------------------------------------------
(* Bounds of the model. *)

\* number of tasks of an attribute batch
MaxTasks == 3
\* number of identifiers of a graph batch
MaxNodes == 3
\* total number of dependency entries of a graph batch
MaxEdges == 3
\* number of runs of analyze_tasks on the same input
MaxRuns == 2
\* largest count passed to get_top_suggestions
MaxCount == 4
\* compute_task_score probe: largest number of days overdue
MaxLate == 8
\* compute_task_score probe: largest number of days until due
MaxDays == 31
\* compute_task_score probe: largest estimated effort below max_hours, in hours
MaxHours == 3
\* compute_task_score probe: largest fan-in maximum
MaxFanIn == 2

-----------------------------------------------------------------------------
(* Generic helpers. *)

Min(a, b) == IF a <= b THEN a ELSE b
Max(a, b) == IF a >= b THEN a ELSE b

Range(s) == {s[i] : i \in DOMAIN s}

\* list.index(x): first position of x in s (0 when absent: Python raises)
Index(s, x) ==
    IF \E i \in DOMAIN s : s[i] = x
    THEN CHOOSE i \in DOMAIN s : s[i] = x /\ \A j \in 1..(i - 1) : s[j] # x
    ELSE 0

\* every ordering of a finite set as a sequence without repetition
Orderings(S) ==
    {s \in [1..Cardinality(S) -> S] : \A i, j \in DOMAIN s : i # j => s[i] # s[j]}

\* sequences over S of length exactly n / at most n
SeqsOfLen(S, n) == [1..n -> S]
SeqsUpTo(S, n) == UNION {SeqsOfLen(S, k) : k \in 0..n}

None == <<>>
Some(x) == <<x>>

-----------------------------------------------------------------------------
(* Component scores: scoring.py lines 16-98. *)

\* one unit of a component score is 1/Scale
Scale == 7 * 9 * 1000

STRATEGIES ==
    [smart_balance |-> [u |-> 35, i |-> 35, e |-> 15, d |-> 15],
     fastest       |-> [u |-> 15, i |-> 20, e |-> 50, d |-> 15],
     high_impact   |-> [u |-> 15, i |-> 60, e |-> 10, d |-> 15],
     deadline      |-> [u |-> 60, i |-> 25, e |-> 5,  d |-> 10]]

StrategyNames == DOMAIN STRATEGIES

\* STRATEGIES.get(strategy, STRATEGIES['smart_balance'])
StrategyWeights(name) ==
    IF name \in StrategyNames THEN STRATEGIES[name] ELSE STRATEGIES["smart_balance"]

\* mutant: the preset of the strategy is used whatever the caller supplies
ResolveWeights_PresetOnly(override, name) == StrategyWeights(name)

\* custom_weights if custom_weights else STRATEGIES.get(strategy, ...): an
\* absent override and an empty one are both falsy
ResolveWeights(override, name) ==
    IF override # None /\ override[1] # <<>> THEN override[1]
    ELSE StrategyWeights(name)

\* max(0.0, min(1.0, (importance - 1) / 9))
normalize_importance(importance) ==
    Max(0, Min(Scale, ((importance - 1) * Scale) \div 9))

\* a due date: absent or empty, unparseable, or a date `days` after today
NoDueDate == [kind |-> "none", days |-> 0]
InvalidDate == [kind |-> "invalid", days |-> 0]
DueIn(d) == [kind |-> "date", days |-> d]

\* mutant: the bonus is not capped at 1.0
LatenessBonus_Uncapped(late_by) == (late_by * Scale) \div 7

\* lateness_bonus = min(late_by / 7, 1.0)
LatenessBonus(late_by) == Min((late_by * Scale) \div 7, Scale)

\* mutant: the ramp rises with the days left
UrgentScore_Rising(days_left) ==
    (900 * Scale) \div 1000 + days_left * ((33 * Scale) \div 1000)

\* 0.9 + (3 - days_left) * 0.033
UrgentScore(days_left) ==
    (900 * Scale) \div 1000 + (3 - days_left) * ((33 * Scale) \div 1000)

\* mutant: the decay runs over 60 days
DecayScore_Over60(days_left) ==
    Max(0, Min(Scale, Scale - (days_left * Scale) \div 60))

\* max(0.0, min(1.0, 1 - days_left / 30))
DecayScore(days_left) ==
    Max(0, Min(Scale, Scale - (days_left * Scale) \div 30))

calculate_urgency_score(due_date) ==
    IF due_date.kind = "none"
    THEN [score |-> Scale \div 2, status |-> "no_due_date", days_left |-> 0, late_by |-> 0]
    ELSE IF due_date.kind = "invalid"
    THEN [score |-> Scale \div 2, status |-> "invalid_date", days_left |-> 0, late_by |-> 0]
    ELSE LET days_left == due_date.days IN
         IF days_left < 0
         THEN LET late_by == -days_left
              IN  [score |-> Scale + LatenessBonus(late_by), status |-> "overdue",
                   days_left |-> days_left, late_by |-> late_by]
         ELSE IF days_left = 0
         THEN [score |-> Scale, status |-> "due_today", days_left |-> 0, late_by |-> 0]
         ELSE IF days_left <= 3
         THEN [score |-> UrgentScore(days_left),
               status |-> "urgent", days_left |-> days_left, late_by |-> 0]
         ELSE [score |-> DecayScore(days_left),
               status |-> "normal", days_left |-> days_left, late_by |-> 0]

\* round(Scale * (1 - ln(h + 1) / ln(41))) for h = 1..40
EffortTable ==
    <<51241, 44362, 39482, 35696, 32603, 29988, 27723, 25725, 23937, 22320,
      20844, 19486, 18229, 17058, 15964, 14935, 13965, 13048, 12178, 11350,
      10561, 9807, 9085, 8392, 7727, 7087, 6470, 5875, 5299, 4743,
      4204, 3682, 3176, 2684, 2206, 1742, 1289, 848, 419, 0>>

\* max_hours = 40: 1.0 for no effort, logarithmic decay, clamped to [0, 1]
calculate_effort_score(estimated_hours) ==
    IF estimated_hours <= 0 THEN Scale
    ELSE IF estimated_hours > Len(EffortTable) THEN 0
    ELSE Max(0, Min(Scale, EffortTable[estimated_hours]))

\* dependency_map.get(task_id, 0)
MapGet(map, task_id) == IF task_id \in DOMAIN map THEN map[task_id] ELSE 0

calculate_dependency_score(task_id, map, max_dep) ==
    IF max_dep = 0 THEN 0
    ELSE Min(Scale, (MapGet(map, task_id) * Scale) \div max_dep)

-----------------------------------------------------------------------------
(* Dependency graph analysis: scoring.py lines 101-179. *)

WHITE == 0
GRAY == 1
BLACK == 2

\* all_task_ids: the truthy identifiers of the tasks
AllTaskIds(tasks) == {tasks[i].id : i \in {j \in DOMAIN tasks : tasks[j].id # ""}}

\* graph[task_id] = task.get('dependencies', []): a later task with the same
\* identifier overwrites an earlier one
BuildGraph(tasks) ==
    [x \in AllTaskIds(tasks) |->
        LET last == CHOOSE i \in DOMAIN tasks :
                        /\ tasks[i].id = x
                        /\ \A j \in DOMAIN tasks : tasks[j].id = x => j <= i
        IN  tasks[last].dependencies]

\* color = {task_id: WHITE for task_id in all_task_ids}; cycles = []; no call
\* of dfs has been made
DfsInit(tasks) ==
    [color |-> [x \in AllTaskIds(tasks) |-> WHITE], cycles |-> <<>>, calls |-> <<>>]

\* a call dfs(node, path), with the colours it finds
Call(node, path, colours) == [node |-> node, path |-> path, color |-> colours]

\* mutant: the node is put on the path twice
EnterPath_Twice(path, node) == Append(Append(path, node), node)

\* path.append(node)
EnterPath(path, node) == Append(path, node)

\* mutant: the whole path is recorded, not its suffix from the revisited node
CycleSuffix_WholePath(path, node) == path

\* cycle_start = path.index(node); cycle = path[cycle_start:]
CycleSuffix(path, node) == SubSeq(path, Index(path, node), Len(path))

\* if neighbor in all_task_ids: only follow valid dependencies
FollowsEdge(graph, neighbor) == neighbor \in DOMAIN graph

RECURSIVE dfs(_, _, _, _), VisitNeighbors(_, _, _, _, _)

\* mutant: a search with two colours, which returns at every visited node
dfs_TwoColour(graph, node, path, st) ==
    IF st.color[node] # WHITE THEN st
    ELSE LET entered == [st EXCEPT !.color[node] = GRAY]
             path1 == EnterPath(path, node)
             after == VisitNeighbors(graph, node, 1, path1, entered)
         IN  [after EXCEPT !.color[node] = BLACK]

\* dfs(node, path) with the enclosing color and cycles as st
dfs(graph, node, path, st) ==
    LET called == [st EXCEPT !.calls = Append(@, Call(node, path, st.color))] IN
    IF called.color[node] = BLACK THEN called
    ELSE IF called.color[node] = GRAY
    THEN [called EXCEPT !.cycles = Append(@, CycleSuffix(path, node))]
    ELSE LET entered == [called EXCEPT !.color[node] = GRAY]
             path1 == EnterPath(path, node)
             after == VisitNeighbors(graph, node, 1, path1, entered)
         IN  [after EXCEPT !.color[node] = BLACK]

\* for neighbor in graph.get(node, []): ... dfs(neighbor, path[:]), from the
\* k-th neighbour on
VisitNeighbors(graph, node, k, path, st) ==
    IF k > Len(graph[node]) THEN st
    ELSE LET neighbor == graph[node][k]
             st1 == IF FollowsEdge(graph, neighbor)
                    THEN dfs(graph, neighbor, path, st)
                    ELSE st
         IN  VisitNeighbors(graph, node, k + 1, path, st1)

\* tasks_in_cycles: the identifiers of all recorded cycles
Flatten(cycs) == UNION {Range(cycs[i]) : i \in DOMAIN cycs}

\* dependency_map[dep_id] = dependency_map.get(dep_id, 0) + 1
Increment(map, dep_id) ==
    [x \in DOMAIN map \cup {dep_id} |->
        IF x = dep_id THEN MapGet(map, dep_id) + 1 ELSE map[x]]

\* mutant: every entry is counted, absent identifiers too
CountDependency_Unchecked(acc, dep_id, all_task_ids) ==
    [acc EXCEPT !.map = Increment(@, dep_id)]

\* one dependency entry: missing_deps.add(dep_id) or a counter incremented
CountDependency(acc, dep_id, all_task_ids) ==
    IF dep_id \notin all_task_ids
    THEN [acc EXCEPT !.missing = @ \cup {dep_id}]
    ELSE [acc EXCEPT !.map = Increment(@, dep_id)]

RECURSIVE CountDependencies(_, _, _, _)

\* for dep_id in dependencies, from the k-th entry on
CountDependencies(acc, dependencies, k, all_task_ids) ==
    IF k > Len(dependencies) THEN acc
    ELSE CountDependencies(CountDependency(acc, dependencies[k], all_task_ids),
                           dependencies, k + 1, all_task_ids)

RECURSIVE CountTasks(_, _, _)

\* for task in tasks, from the i-th task on
CountTasks(acc, tasks, i) ==
    IF i > Len(tasks) THEN acc
    ELSE CountTasks(CountDependencies(acc, tasks[i].dependencies, 1, AllTaskIds(tasks)),
                    tasks, i + 1)

\* mutant: the maximum of an empty map is 0
MaxDependents_ZeroDefault(map) ==
    IF DOMAIN map = {} THEN 0
    ELSE CHOOSE m \in {map[x] : x \in DOMAIN map} : \A y \in DOMAIN map : map[y] <= m

\* max(dependency_map.values()) if dependency_map else 1
MaxDependents(map) ==
    IF DOMAIN map = {} THEN 1
    ELSE CHOOSE m \in {map[x] : x \in DOMAIN map} : \A y \in DOMAIN map : map[y] <= m

\* build_dependency_map, its missing identifiers still a set
build_dependency_map(tasks) ==
    LET acc == CountTasks([map |-> <<>>, missing |-> {}], tasks, 1)
    IN  [dependency_map |-> acc.map,
         max_dependents |-> MaxDependents(acc.map),
         missing |-> acc.missing]

-----------------------------------------------------------------------------
(* Score composer: scoring.py lines 182-253. *)

\* final_score >= 75: 'High'; >= 50: 'Medium'; else 'Low' (num = final * Scale)
PriorityLabel(num) ==
    IF num >= 75 * Scale THEN "High"
    ELSE IF num >= 50 * Scale THEN "Medium"
    ELSE "Low"

Marker(m, n) == [marker |-> m, n |-> n]

\* explanation_parts, in the order the code appends them
ExplanationParts(task, urgency_meta, num_dependents) ==
    (IF urgency_meta.status = "overdue" THEN <<Marker("overdue", urgency_meta.late_by)>>
     ELSE IF urgency_meta.status = "due_today" THEN <<Marker("due_today", 0)>>
     ELSE IF urgency_meta.status = "urgent" THEN <<Marker("due_in", urgency_meta.days_left)>>
     ELSE <<>>)
    \o (IF task.importance >= 8 THEN <<Marker("high_importance", task.importance)>>
        ELSE IF task.importance >= 6 THEN <<Marker("medium_importance", task.importance)>>
        ELSE <<>>)
    \o (IF task.estimated_hours <= 2 THEN <<Marker("quick_win", task.estimated_hours)>>
        ELSE <<>>)
    \o (IF num_dependents > 0 THEN <<Marker("blocks", num_dependents)>> ELSE <<>>)

\* raw_score: the weighted combination (hundredths times 1/Scale), which is
\* final_score * Scale
WeightedSum(w, u_score, i_score, e_score, d_score) ==
    w.u * u_score + w.i * i_score + w.e * e_score + w.d * d_score

compute_task_score(task, w, map, max_dep) ==
    LET urgency_meta == calculate_urgency_score(task.due_date)
        i_score == normalize_importance(task.importance)
        e_score == calculate_effort_score(task.estimated_hours)
        d_score == calculate_dependency_score(task.id, map, max_dep)
        final_score == WeightedSum(w, urgency_meta.score, i_score, e_score, d_score)
        num_dependents == MapGet(map, task.id)
        parts == ExplanationParts(task, urgency_meta, num_dependents)
    IN  [score |-> final_score,
         priority_label |-> PriorityLabel(final_score),
         explanation |-> IF parts # <<>> THEN parts ELSE <<Marker("standard", 0)>>,
         details |-> [urgency_score |-> urgency_meta.score,
                      importance_score |-> i_score,
                      effort_score |-> e_score,
                      dependency_score |-> d_score,
                      urgency_meta |-> urgency_meta,
                      status |-> urgency_meta.status,
                      num_dependents |-> num_dependents]]

\* round(score, 2), in hundredths of a point: the nearest hundredth, a tie
\* going to the even one
Round2(num) ==
    LET unit == Scale \div 100
        q == num \div unit
        r == num % unit
    IN  IF 2 * r < unit THEN q
        ELSE IF 2 * r > unit THEN q + 1
        ELSE IF q % 2 = 0 THEN q ELSE q + 1

-----------------------------------------------------------------------------
(* Batch orchestrator: scoring.py lines 256-358. *)

Warn(kind, idx, ids) == [kind |-> kind, idx |-> idx, ids |-> ids]

\* mutant: a batch-level warning is put in front of the list
AppendWarning_InFront(warns, w) == <<w>> \o warns

\* warnings.append(...) of the cycle and missing-dependency warnings
AppendWarning(warns, w) == Append(warns, w)

\* mutant: the defaults are applied, the ranges are not enforced
NormalizeTask_NoClamp(task) ==
    [id |-> task.id,
     title |-> IF task.title = "" THEN "Task " \o task.id ELSE task.title,
     due_date |-> task.due_date,
     estimated_hours |-> IF task.estimated_hours = None THEN 1 ELSE task.estimated_hours[1],
     importance |-> IF task.importance = None THEN 5 ELSE task.importance[1],
     dependencies |-> IF task.dependencies = None THEN <<>> ELSE task.dependencies[1]]

\* the defaults and clamps of lines 284-299, for a task that has an identifier
NormalizeTask(task) ==
    [id |-> task.id,
     title |-> IF task.title = "" THEN "Task " \o task.id ELSE task.title,
     due_date |-> task.due_date,
     estimated_hours |->
        Max(0, IF task.estimated_hours = None THEN 1 ELSE task.estimated_hours[1]),
     importance |->
        Max(1, Min(10, IF task.importance = None THEN 5 ELSE task.importance[1])),
     dependencies |-> IF task.dependencies = None THEN <<>> ELSE task.dependencies[1]]

\* mutant: the index is counted from 1
SkipWarning_OneBased(i) == Warn("skipped", i, <<>>)

\* f"Task at index {idx} missing 'id' field - skipped", idx counted from 0
SkipWarning(i) == Warn("skipped", i - 1, <<>>)

RECURSIVE ValidateFrom(_, _, _)

\* for idx, task in enumerate(tasks), from the task at position i on
\* (its Python index is i - 1)
ValidateFrom(tasks, i, acc) ==
    IF i > Len(tasks) THEN acc
    ELSE LET task == tasks[i] IN
         IF task.id = ""
         THEN ValidateFrom(tasks, i + 1,
                [acc EXCEPT !.warnings = Append(@, SkipWarning(i))])
         ELSE ValidateFrom(tasks, i + 1,
                [valid |-> Append(acc.valid, NormalizeTask(task)),
                 warnings |-> IF task.title = ""
                              THEN Append(acc.warnings, Warn("default_title", i - 1, <<task.id>>))
                              ELSE acc.warnings])

\* the analyzed_task record of lines 328-339
AnalyzedTask(task, w, map, max_dep, in_cycles) ==
    LET scored == compute_task_score(task, w, map, max_dep) IN
    [id |-> task.id,
     title |-> task.title,
     due_date |-> task.due_date,
     estimated_hours |-> task.estimated_hours,
     importance |-> task.importance,
     dependencies |-> task.dependencies,
     score |-> Round2(scored.score),
     priority_label |-> scored.priority_label,
     explanation |-> scored.explanation,
     in_circular_dependency |-> task.id \in in_cycles]

\* mutant: the sort key leaves out the number of dependents
KeyLess_NoFanIn(a, b, map) ==
    \/ a.score > b.score
    \/ /\ a.score = b.score
       /\ a.estimated_hours < b.estimated_hours

\* the sort key (-score, -dependents, hours) of a is smaller than that of b
KeyLess(a, b, map) ==
    \/ a.score > b.score
    \/ /\ a.score = b.score
       /\ MapGet(map, a.id) > MapGet(map, b.id)
    \/ /\ a.score = b.score
       /\ MapGet(map, a.id) = MapGet(map, b.id)
       /\ a.estimated_hours < b.estimated_hours

\* x placed in front of the first entry whose key is larger than its own
InsertSorted(sorted, x, map) ==
    LET later == {i \in DOMAIN sorted : KeyLess(x, sorted[i], map)}
        at == IF later = {} THEN Len(sorted) + 1
              ELSE CHOOSE i \in later : \A j \in later : i <= j
    IN  SubSeq(sorted, 1, at - 1) \o <<x>> \o SubSeq(sorted, at, Len(sorted))

RECURSIVE SortFrom(_, _, _, _)

SortFrom(entries, i, sorted, map) ==
    IF i > Len(entries) THEN sorted
    ELSE SortFrom(entries, i + 1, InsertSorted(sorted, entries[i], map), map)

\* analyzed_tasks.sort(key=...): a stable sort
SortAnalyzed(entries, map) == SortFrom(entries, 1, <<>>, map)

\* the structure analyze_tasks returns; the early returns carry no 'cycles' key
Returned(analyzed, warns, w, has_cycles, cycs) ==
    [analyzed |-> analyzed, warnings |-> warns, strategy |-> strategy, weights |-> w,
     has_cycles |-> has_cycles, cycles |-> cycs]

Result == result[1]

\* 'High' if score >= 75 else 'Medium' if score >= 50 else 'Moderate', on the
\* score of the entry (hundredths of a point)
Confidence(score) ==
    IF score >= 7500 THEN "High" ELSE IF score >= 5000 THEN "Medium" ELSE "Moderate"

\* analyzed[:count]: a prefix, and for a negative count all but the last
\* -count entries
Prefix(list, count) ==
    IF count >= 0 THEN SubSeq(list, 1, Min(count, Len(list)))
    ELSE SubSeq(list, 1, Max(0, Len(list) + count))

\* {**task, 'rank': idx + 1, 'confidence': ..., 'recommendation': ...}
Suggestion(task, rank) ==
    [f \in DOMAIN task \cup {"rank", "confidence", "recommendation"} |->
        IF f = "rank" THEN rank
        ELSE IF f = "confidence" THEN Confidence(task.score)
        ELSE IF f = "recommendation"
        THEN [rank |-> rank, explanation |-> task.explanation]
        ELSE task[f]]

get_top_suggestions(analyzed_result, count) ==
    LET tasks == Prefix(analyzed_result.analyzed, count)
    IN  [idx \in DOMAIN tasks |-> Suggestion(tasks[idx], idx)]

-----------------------------------------------------------------------------
(* The requests: batches of raw task records as serializers.py admits them *)
(* (lines 9-21), and as tests.py passes them to the engine directly.       *)

IdNames == <<"t1", "t2", "t3", "t4", "t5", "t6">>
TaskId(i) == IdNames[i]

\* an identifier no task of a batch has, as in tests.py
AbsentId == "t999"

RawTask(id, title, due_date, estimated_hours, importance, dependencies) ==
    [id |-> id, title |-> title, due_date |-> due_date,
     estimated_hours |-> estimated_hours, importance |-> importance,
     dependencies |-> dependencies]

RECURSIVE DepLists(_, _, _)

\* the dependency lists of n tasks holding at most budget entries in all
DepLists(n, budget, targets) ==
    IF n = 0 THEN {<<>>}
    ELSE UNION {{<<l>> \o rest : l \in SeqsOfLen(targets, k),
                                  rest \in DepLists(n - 1, budget - k, targets)} :
                k \in 0..budget}

\* n tasks t1..tn with plain attributes and every choice of dependency lists
\* over the identifiers t1..tm (repeated entries and self-references
\* included) of at most `edges` entries in all; with n < m the references to
\* t(n+1)..tm are references to identifiers absent from the batch
GraphBatches(n, m, edges) ==
    {[i \in 1..n |->
        RawTask(TaskId(i), "Title", NoDueDate, Some(1), Some(5), Some(d[i]))] :
     d \in DepLists(n, edges, {TaskId(i) : i \in 1..m})}

\* attribute profiles: id present, title, due date, hours, importance
Profiles ==
    {[has_id |-> TRUE,  title |-> "", due_date |-> NoDueDate,
      estimated_hours |-> None, importance |-> None],
     [has_id |-> TRUE,  title |-> "Title", due_date |-> DueIn(-10),
      estimated_hours |-> Some(-5), importance |-> Some(999)],
     [has_id |-> TRUE,  title |-> "Title", due_date |-> DueIn(3),
      estimated_hours |-> Some(4), importance |-> Some(10)],
     [has_id |-> TRUE,  title |-> "Title", due_date |-> DueIn(1),
      estimated_hours |-> Some(100), importance |-> Some(0)],
     [has_id |-> FALSE, title |-> "Title", due_date |-> InvalidDate,
      estimated_hours |-> Some(2), importance |-> Some(7)]}

\* dependency patterns of the attribute batches: none (one field not a list);
\* every later task depending on the first; the first two tasks depending on
\* each other and the later ones on the first, every task also referring to
\* two absent identifiers
PatternDeps(pattern, i, n) ==
    IF pattern = "none" THEN (IF i = 1 THEN None ELSE Some(<<>>))
    ELSE IF pattern = "star" THEN (IF i = 1 THEN Some(<<>>) ELSE Some(<<TaskId(1)>>))
    ELSE Some(<<TaskId(IF i = 1 THEN 2 ELSE 1), AbsentId, "t998">>)

AttributeBatches(pattern) ==
    UNION {{[i \in 1..n |->
                RawTask(IF p[i].has_id THEN TaskId(i) ELSE "", p[i].title, p[i].due_date,
                        p[i].estimated_hours, p[i].importance, PatternDeps(pattern, i, n))] :
            p \in [1..n -> Profiles]} :
           n \in 0..MaxTasks}

\* a caller-supplied override that ignores effort and fan-in
ImportanceOnly == [u |-> 0, i |-> 100, e |-> 0, d |-> 0]

\* the requests of the attribute batches: dependency pattern, strategy, override
Setups ==
    {[pattern |-> "none", strategy |-> name, custom_weights |-> None] :
        name \in StrategyNames}
    \cup {[pattern |-> "star", strategy |-> "smart_balance", custom_weights |-> None],
          [pattern |-> "star", strategy |-> "fastest", custom_weights |-> Some(ImportanceOnly)],
          [pattern |-> "pair", strategy |-> "smart_balance", custom_weights |-> None]}

-----------------------------------------------------------------------------
(* analyze_tasks as a state machine. *)

Idle ==
    /\ weights = None
    /\ warnings = <<>>
    /\ valid_tasks = <<>>
    /\ color = <<>>
    /\ cycles = <<>>
    /\ tasks_in_cycles = {}
    /\ dependency_map = <<>>
    /\ max_dependents = 0
    /\ missing_deps = <<>>
    /\ analyzed_tasks = <<>>
    /\ result = None

Init ==
    /\ \/ /\ batch \in GraphBatches(MaxNodes, MaxNodes, MaxEdges)
                        \cup GraphBatches(MaxNodes - 1, MaxNodes, MaxEdges)
          /\ strategy = "smart_balance"
          /\ custom_weights = None
       \/ \E setup \in Setups :
          /\ batch \in AttributeBatches(setup.pattern)
          /\ strategy = setup.strategy
          /\ custom_weights = setup.custom_weights
    /\ pc = "start"
    /\ Idle
    /\ previous = <<>>
    /\ probe = None
    /\ suggestions = None
    /\ calls = <<>>

\* lines 264-270: if not tasks
StartEmpty ==
    /\ pc = "start"
    /\ batch = <<>>
    /\ result' = Some(Returned(<<>>, <<>>, StrategyWeights(strategy), FALSE, None))
    /\ pc' = "done"
    /\ UNCHANGED <<batch, strategy, custom_weights, weights, warnings, valid_tasks, color,
                   cycles, tasks_in_cycles, dependency_map, max_dependents, missing_deps,
                   analyzed_tasks, previous, probe,
                   suggestions, calls>>

\* lines 272-276: the weights are resolved
Start ==
    /\ pc = "start"
    /\ batch # <<>>
    /\ weights' = ResolveWeights(custom_weights, strategy)
    /\ pc' = "validate"
    /\ UNCHANGED <<batch, strategy, custom_weights, warnings, valid_tasks, color, cycles,
                   tasks_in_cycles, dependency_map, max_dependents, missing_deps,
                   analyzed_tasks, result, previous, probe,
                   suggestions, calls>>

\* lines 278-309: the validation loop, and the early return when no task is left
Validate ==
    /\ pc = "validate"
    /\ LET v == ValidateFrom(batch, 1, [valid |-> <<>>, warnings |-> <<>>]) IN
        /\ valid_tasks' = v.valid
        /\ IF v.valid = <<>>
           THEN /\ warnings' = Append(v.warnings, Warn("no_valid", 0, <<>>))
                /\ result' = Some(Returned(<<>>, warnings', weights, FALSE, None))
                /\ pc' = "done"
                /\ UNCHANGED <<color, cycles>>
           ELSE /\ warnings' = v.warnings
                /\ color' = DfsInit(v.valid).color
                /\ cycles' = DfsInit(v.valid).cycles
                /\ pc' = "detect"
                /\ UNCHANGED result
    /\ UNCHANGED <<batch, strategy, custom_weights, weights, tasks_in_cycles,
                   dependency_map, max_dependents, missing_deps, analyzed_tasks,
                   previous, probe,
                   suggestions, calls>>

\* lines 143-145: the next identifier of the set, in whatever order the set
\* iterates, is still white and is searched
DfsFrom(task_id) ==
    /\ pc = "detect"
    /\ task_id \in DOMAIN color
    /\ color[task_id] = WHITE
    /\ LET st == dfs(BuildGraph(valid_tasks), task_id, <<>>,
                     [color |-> color, cycles |-> cycles, calls |-> calls]) IN
        /\ color' = st.color
        /\ cycles' = st.cycles
        /\ calls' = st.calls
    /\ UNCHANGED <<batch, strategy, custom_weights, pc, weights, warnings, valid_tasks,
                   tasks_in_cycles, dependency_map, max_dependents, missing_deps,
                   analyzed_tasks, result, previous, probe, suggestions>>

\* lines 147-152 and 312-314: the cycles are flattened and the warning added;
\* the calls of dfs are over
FinishDetect ==
    /\ pc = "detect"
    /\ \A x \in DOMAIN color : color[x] # WHITE
    /\ tasks_in_cycles' = Flatten(cycles)
    /\ warnings' = IF cycles # <<>>
                   THEN AppendWarning(warnings,
                                      Warn("cycle", 0, cycles[1] \o <<cycles[1][1]>>))
                   ELSE warnings
    /\ calls' = <<>>
    /\ pc' = "depmap"
    /\ UNCHANGED <<batch, strategy, custom_weights, weights, valid_tasks, color, cycles,
                   dependency_map, max_dependents, missing_deps, analyzed_tasks, result,
                   previous, probe,
                   suggestions>>

\* lines 316-319: list(missing_deps) is in whatever order the set iterates
BuildMap ==
    /\ pc = "depmap"
    /\ LET m == build_dependency_map(valid_tasks) IN
        /\ dependency_map' = m.dependency_map
        /\ max_dependents' = m.max_dependents
        /\ missing_deps' \in Orderings(m.missing)
        /\ warnings' = IF missing_deps' # <<>>
                       THEN AppendWarning(warnings, Warn("missing", 0, missing_deps'))
                       ELSE warnings
    /\ pc' = "score"
    /\ UNCHANGED <<batch, strategy, custom_weights, weights, valid_tasks, color, cycles,
                   tasks_in_cycles, analyzed_tasks, result, previous, probe,
                   suggestions, calls>>

\* lines 323-341: one iteration of the scoring loop
ScoreTask ==
    /\ pc = "score"
    /\ Len(analyzed_tasks) < Len(valid_tasks)
    /\ analyzed_tasks' =
          Append(analyzed_tasks,
                 AnalyzedTask(valid_tasks[Len(analyzed_tasks) + 1], weights,
                              dependency_map, max_dependents, tasks_in_cycles))
    /\ UNCHANGED <<batch, strategy, custom_weights, pc, weights, warnings, valid_tasks,
                   color, cycles, tasks_in_cycles, dependency_map, max_dependents,
                   missing_deps, result, previous, probe,
                   suggestions, calls>>

\* mutant: the sort does not wait for the scoring loop to end
SortAndReturn_Early ==
    /\ pc = "score"
    /\ analyzed_tasks' = SortAnalyzed(analyzed_tasks, dependency_map)
    /\ result' = Some(Returned(analyzed_tasks', warnings, weights, TRUE,
                               IF cycles # <<>> THEN Some(cycles) ELSE None))
    /\ pc' = "done"
    /\ UNCHANGED <<batch, strategy, custom_weights, weights, warnings, valid_tasks, color,
                   cycles, tasks_in_cycles, dependency_map, max_dependents, missing_deps,
                   previous, probe, suggestions, calls>>

\* lines 343-358: the sort and the return
SortAndReturn ==
    /\ pc = "score"
    /\ Len(analyzed_tasks) = Len(valid_tasks)
    /\ analyzed_tasks' = SortAnalyzed(analyzed_tasks, dependency_map)
    /\ result' = Some(Returned(analyzed_tasks', warnings, weights, TRUE,
                               IF cycles # <<>> THEN Some(cycles) ELSE None))
    /\ pc' = "done"
    /\ UNCHANGED <<batch, strategy, custom_weights, weights, warnings, valid_tasks, color,
                   cycles, tasks_in_cycles, dependency_map, max_dependents, missing_deps,
                   previous, probe,
                   suggestions, calls>>

Next ==
    \/ StartEmpty
    \/ Start
    \/ Validate
    \/ \E task_id \in DOMAIN color : DfsFrom(task_id)
    \/ FinishDetect
    \/ BuildMap
    \/ ScoreTask
    \/ SortAndReturn

Spec == Init /\ [][Next]_vars

-----------------------------------------------------------------------------
(* compute_task_score applied to one normalized task. *)

\* the dependency maps of a batch {t1, t2} with counters up to MaxFanIn
ProbeMaps ==
    UNION {[keys -> 1..MaxFanIn] : keys \in SUBSET {TaskId(1), TaskId(2)}}

ProbeDueDates ==
    {NoDueDate, InvalidDate} \cup {DueIn(d) : d \in (0 - MaxLate)..MaxDays}

\* whole hours up to MaxHours, and efforts at and beyond max_hours = 40
ProbeHours == 0..MaxHours \cup {Len(EffortTable), Len(EffortTable) + 1, 100}

ProbeTasks ==
    {[id |-> TaskId(1), title |-> "Title", due_date |-> due,
      estimated_hours |-> hours, importance |-> importance, dependencies |-> <<>>] :
     due \in ProbeDueDates, hours \in ProbeHours, importance \in 1..10}

InitScore ==
    /\ batch = <<>>
    /\ strategy \in StrategyNames
    /\ custom_weights = None
    /\ pc = "probe"
    /\ Idle
    /\ previous = <<>>
    /\ probe = None
    /\ suggestions = None
    /\ calls = <<>>

\* one call of compute_task_score with the weights of the strategy and the
\* map and maximum build_dependency_map returns
Probe ==
    /\ pc = "probe"
    /\ probe = None
    /\ \E task \in ProbeTasks, map \in ProbeMaps :
          probe' = Some([task |-> task, map |-> map,
                         max_dependents |-> MaxDependents(map),
                         out |-> compute_task_score(task, StrategyWeights(strategy), map,
                                                    MaxDependents(map))])
    /\ UNCHANGED <<batch, strategy, custom_weights, pc, weights, warnings, valid_tasks,
                   color, cycles, tasks_in_cycles, dependency_map, max_dependents,
                   missing_deps, analyzed_tasks, result, previous,
                   suggestions, calls>>

NextScore == Probe

SpecScore == InitScore /\ [][NextScore]_vars

-----------------------------------------------------------------------------
(* The suggestion view: analyze_tasks followed by get_top_suggestions. *)

InitSuggest ==
    /\ \E setup \in Setups :
          /\ batch \in AttributeBatches(setup.pattern)
          /\ strategy = setup.strategy
          /\ custom_weights = setup.custom_weights
    /\ pc = "start"
    /\ Idle
    /\ previous = <<>>
    /\ probe = None
    /\ suggestions = None
    /\ calls = <<>>

\* get_top_suggestions(result, count) once analyze_tasks has returned
Suggest(count) ==
    /\ pc = "done"
    /\ suggestions = None
    /\ suggestions' = Some([count |-> count,
                            out |-> get_top_suggestions(Result, count)])
    /\ UNCHANGED <<batch, strategy, custom_weights, pc, weights, warnings, valid_tasks,
                   color, cycles, tasks_in_cycles, dependency_map, max_dependents,
                   missing_deps, analyzed_tasks, result, previous, probe, calls>>

NextSuggest ==
    \/ Next
    \/ \E count \in (0 - 1)..MaxCount : Suggest(count)

SpecSuggest == InitSuggest /\ [][NextSuggest]_vars

-----------------------------------------------------------------------------
(* The analyze request: AnalyzeRequestSerializer, then analyze_tasks. *)

\* required_keys = {'u', 'i', 'e', 'd'}
required_keys == {"u", "i", "e", "d"}

\* validate_weights: TRUE when the value is returned, FALSE when a
\* ValidationError is raised; an absent or empty mapping is not looked at
validate_weights(value) ==
    IF value = None \/ value[1] = <<>> THEN TRUE
    ELSE /\ required_keys \subseteq DOMAIN value[1]
         /\ \A key \in DOMAIN value[1] : 0 <= value[1][key] /\ value[1][key] <= 100

\* validate_tasks: at least one task is required
validate_tasks(value) == value # <<>>

\* the weights of a request: hundredths below, in and above [0, 1], under
\* some of the four keys and a fifth
RequestKeys == required_keys \cup {"x"}
RequestValues == {0 - 1, 0, 100, 101}
RequestWeights ==
    {None} \cup {Some(w) : w \in UNION {[keys -> RequestValues] : keys \in SUBSET RequestKeys}}

RequestBatches ==
    {<<>>,
     <<RawTask(TaskId(1), "Title", DueIn(0), Some(1), Some(10), Some(<<>>))>>}

InitRequest ==
    /\ batch \in RequestBatches
    /\ strategy \in {"deadline", "unknown"}
    /\ custom_weights \in RequestWeights
    /\ pc = "request"
    /\ Idle
    /\ previous = <<>>
    /\ probe = None
    /\ suggestions = None
    /\ calls = <<>>

\* serializer.is_valid(): the request is rejected (400) or handed to the engine
ValidateRequest ==
    /\ pc = "request"
    /\ pc' = IF /\ validate_tasks(batch)
                /\ strategy \in StrategyNames
                /\ validate_weights(custom_weights)
             THEN "start"
             ELSE "rejected"
    /\ UNCHANGED <<batch, strategy, custom_weights, weights, warnings, valid_tasks, color,
                   cycles, tasks_in_cycles, dependency_map, max_dependents, missing_deps,
                   analyzed_tasks, result, previous, probe, suggestions, calls>>

\* an accepted request is never empty, so only the non-empty path of the
\* engine follows
NextRequest ==
    \/ ValidateRequest
    \/ Start
    \/ Validate
    \/ \E task_id \in DOMAIN color : DfsFrom(task_id)
    \/ FinishDetect
    \/ BuildMap
    \/ ScoreTask
    \/ SortAndReturn

SpecRequest == InitRequest /\ [][NextRequest]_vars

-----------------------------------------------------------------------------
(* Repeated runs on the same input, over deeper graphs. *)

\* analyze_tasks is called again with an equal, unmodified batch, the same
\* strategy and the same date; the result of the run before is kept
Rerun ==
    /\ pc = "done"
    /\ Len(previous) + 1 < MaxRuns
    /\ previous' = Append(previous, Result)
    /\ pc' = "start"
    /\ weights' = None
    /\ warnings' = <<>>
    /\ valid_tasks' = <<>>
    /\ color' = <<>>
    /\ cycles' = <<>>
    /\ tasks_in_cycles' = {}
    /\ dependency_map' = <<>>
    /\ max_dependents' = 0
    /\ missing_deps' = <<>>
    /\ analyzed_tasks' = <<>>
    /\ result' = None
    /\ UNCHANGED <<batch, strategy, custom_weights, probe,
                   suggestions, calls>>

InitDeep ==
    /\ batch \in GraphBatches(MaxNodes, MaxNodes, MaxEdges + 1) \cup {<<>>}
    /\ strategy = "smart_balance"
    /\ custom_weights = None
    /\ pc = "start"
    /\ Idle
    /\ previous = <<>>
    /\ probe = None
    /\ suggestions = None
    /\ calls = <<>>

NextDeep == Next \/ Rerun

SpecDeep == InitDeep /\ [][NextDeep]_vars

-----------------------------------------------------------------------------
(* Vocabulary of the claims about the dependency graph. *)

\* the dependency graph of the surviving tasks and its in-batch edges
TheGraph == BuildGraph(valid_tasks)
Successors(graph, x) == Range(graph[x]) \cap DOMAIN graph

RECURSIVE Reachable(_, _, _)

\* the identifiers reachable from frontier by zero or more in-batch edges
Reachable(graph, frontier, seen) ==
    IF frontier \subseteq seen THEN seen
    ELSE Reachable(graph,
                   UNION {Successors(graph, x) : x \in frontier \ seen},
                   seen \cup frontier)

\* x lies on a directed cycle of the graph
OnCycle(graph, x) == x \in Reachable(graph, Successors(graph, x), {})
CycleMembers(graph) == {x \in DOMAIN graph : OnCycle(graph, x)}

\* the identifiers of the batch are pairwise distinct
UniqueIds ==
    \A i, j \in DOMAIN valid_tasks : valid_tasks[i].id = valid_tasks[j].id => i = j

DetectionOver == pc \in {"depmap", "score"} \/ (pc = "done" /\ Result.has_cycles)

-----------------------------------------------------------------------------
(* Claims. *)

\* C1: with unique identifiers, whatever the order of the search, every
\* identifier on a directed cycle of the dependency graph is in the returned
\* set of cycle members, and its analyzed entry is flagged.
C1_EveryCycleMemberFlagged ==
    (DetectionOver /\ UniqueIds) =>
        /\ CycleMembers(TheGraph) \subseteq tasks_in_cycles
        /\ \A k \in DOMAIN analyzed_tasks :
              OnCycle(TheGraph, analyzed_tasks[k].id)
                  => analyzed_tasks[k].in_circular_dependency

MapBuilt == pc = "score" \/ (pc = "done" /\ Result.has_cycles)
Returned_Full == pc = "done" /\ Result.has_cycles

\* the tasks other than x that list x as a dependency
ListingTasks(x) ==
    {i \in DOMAIN valid_tasks :
        valid_tasks[i].id # x /\ x \in Range(valid_tasks[i].dependencies)}

\* C2: the dependency map gives, for each identifier of the batch, the number
\* of other tasks that list it as a dependency; an identifier no other task
\* lists is absent from the map.
C2_MapCountsListingTasks ==
    MapBuilt =>
        \A x \in AllTaskIds(valid_tasks) :
            /\ MapGet(dependency_map, x) = Cardinality(ListingTasks(x))
            /\ x \in DOMAIN dependency_map <=> ListingTasks(x) # {}

\* C3 as stated: for a normalized task, any dependency map and each built-in
\* strategy, the final score is at least 0 and at most 110.
C3_ScoreWithin110 ==
    probe # None => /\ probe[1].out.score >= 0
                    /\ probe[1].out.score <= 110 * Scale

\* C3 as amended: for a normalized task, any dependency map and each built-in
\* strategy, the final score is at least 0 and at most 160.
C3_ScoreWithin160 ==
    probe # None => /\ probe[1].out.score >= 0
                    /\ probe[1].out.score <= 160 * Scale

\* an overdue task of the highest importance and no effort that blocks the
\* most tasks reaches 160 under the deadline strategy
C3_Witness ==
    /\ probe # None
    /\ probe[1].out.score = 160 * Scale
    /\ probe[1].out.details.status = "overdue"

\* C4: two runs of analyze_tasks on the same batch, strategy and date return
\* identical results.
C4_RunsAgree ==
    (pc = "done" /\ previous # <<>>) => Result = previous[1]

\* position of the task with identifier x in the validated input
InputPos(x) == Index([i \in DOMAIN valid_tasks |-> valid_tasks[i].id], x)

FanIn(entry) == MapGet(dependency_map, entry.id)

CycleWarnings == {k \in DOMAIN warnings : warnings[k].kind = "cycle"}

\* C6: the cycle list is non-empty exactly when the in-batch dependency
\* graph has a directed cycle; an acyclic graph flags no identifier; there is
\* one circular-dependency warning when the graph is cyclic and none when
\* it is not, and its path starts and ends with the same identifier.
C6_CyclesIffCyclic ==
    (DetectionOver /\ UniqueIds) =>
        LET cyclic == CycleMembers(TheGraph) # {} IN
        /\ cycles # <<>> <=> cyclic
        /\ ~cyclic => tasks_in_cycles = {}
        /\ Cardinality(CycleWarnings) = (IF cyclic THEN 1 ELSE 0)
        /\ \A k \in CycleWarnings :
              /\ Len(warnings[k].ids) >= 2
              /\ warnings[k].ids[1] = warnings[k].ids[Len(warnings[k].ids)]

\* a cyclic batch whose warning cites a cycle of more than one task
C6_Witness ==
    /\ Returned_Full
    /\ UniqueIds
    /\ CycleWarnings # {}
    /\ \E k \in CycleWarnings : Len(warnings[k].ids) >= 3

HasEdge(graph, x, y) == x \in DOMAIN graph /\ y \in DOMAIN graph /\ y \in Range(graph[x])

\* C7: every recorded cycle is a directed cycle of the in-batch graph: its
\* identifiers are pairwise distinct, each depends on the next and the last
\* on the first; so every flagged identifier lies on a cycle, and a task
\* without in-batch dependencies is never flagged.
C7_RecordedCyclesGenuine ==
    (DetectionOver /\ UniqueIds) =>
        /\ \A c \in DOMAIN cycles :
              LET cyc == cycles[c] IN
              /\ cyc # <<>>
              /\ \A i, j \in DOMAIN cyc : i # j => cyc[i] # cyc[j]
              /\ \A i \in 1..(Len(cyc) - 1) : HasEdge(TheGraph, cyc[i], cyc[i + 1])
              /\ HasEdge(TheGraph, cyc[Len(cyc)], cyc[1])
        /\ tasks_in_cycles \subseteq CycleMembers(TheGraph)
        /\ \A x \in DOMAIN TheGraph :
              Successors(TheGraph, x) = {} => x \notin tasks_in_cycles
        /\ \A k \in DOMAIN analyzed_tasks :
              analyzed_tasks[k].in_circular_dependency
                  => OnCycle(TheGraph, analyzed_tasks[k].id)

\* a batch with a recorded cycle and an unflagged task all of whose
\* dependencies are outside the batch
C7_Witness ==
    /\ Returned_Full
    /\ UniqueIds
    /\ cycles # <<>>
    /\ \E k \in DOMAIN Result.analyzed :
          LET e == Result.analyzed[k] IN
          /\ e.dependencies # <<>>
          /\ Successors(TheGraph, e.id) = {}
          /\ ~e.in_circular_dependency

RECURSIVE CountIn(_, _, _)

\* the number of entries of the list equal to x, from position k on
CountIn(list, x, k) ==
    IF k > Len(list) THEN 0
    ELSE (IF list[k] = x THEN 1 ELSE 0) + CountIn(list, x, k + 1)

RECURSIVE EntryCount(_, _)

\* the number of dependency entries equal to x in the tasks from i on
EntryCount(x, i) ==
    IF i > Len(valid_tasks) THEN 0
    ELSE CountIn(valid_tasks[i].dependencies, x, 1) + EntryCount(x, i + 1)

AllEntries == UNION {Range(valid_tasks[i].dependencies) : i \in DOMAIN valid_tasks}

MissingWarnings == {k \in DOMAIN warnings : warnings[k].kind = "missing"}

\* C8: an entry naming an identifier outside the batch changes no counter
\* (each counter is the number of entries naming its identifier) and is
\* reported; the keys of the map are identifiers of the batch; the missing
\* list holds every absent referenced identifier once and nothing else;
\* there is one missing-dependency warning, naming them all, when the list is
\* non-empty and none otherwise.
C8_MissingReportedNotCounted ==
    MapBuilt =>
        /\ DOMAIN dependency_map \subseteq AllTaskIds(valid_tasks)
        /\ \A x \in AllTaskIds(valid_tasks) :
              MapGet(dependency_map, x) = EntryCount(x, 1)
        /\ Range(missing_deps) = AllEntries \ AllTaskIds(valid_tasks)
        /\ \A i, j \in DOMAIN missing_deps : i # j => missing_deps[i] # missing_deps[j]
        /\ Cardinality(MissingWarnings) = (IF missing_deps # <<>> THEN 1 ELSE 0)
        /\ \A k \in MissingWarnings : warnings[k].ids = missing_deps

\* a batch that refers to two absent identifiers, one of them twice or more,
\* and whose map has counters
C8_Witness ==
    /\ MapBuilt
    /\ Len(missing_deps) = 2
    /\ \E x \in Range(missing_deps) : EntryCount(x, 1) >= 2
    /\ dependency_map # <<>>
    /\ MissingWarnings # {}

DependencyScore(task) ==
    calculate_dependency_score(task.id, dependency_map, max_dependents)

\* C9: max_dependents is a positive integer, 1 for an empty map and the
\* largest counter otherwise; so every task's dependency score is in [0, 1]
\* and, when the map is not empty, some task's dependency score is 1.
C9_MaxDependentsPositive ==
    MapBuilt =>
        /\ max_dependents >= 1
        /\ DOMAIN dependency_map = {} => max_dependents = 1
        /\ DOMAIN dependency_map # {} =>
              /\ \E x \in DOMAIN dependency_map : dependency_map[x] = max_dependents
              /\ \A x \in DOMAIN dependency_map : dependency_map[x] <= max_dependents
              /\ \E i \in DOMAIN valid_tasks : DependencyScore(valid_tasks[i]) = Scale
        /\ \A i \in DOMAIN valid_tasks :
              /\ DependencyScore(valid_tasks[i]) >= 0
              /\ DependencyScore(valid_tasks[i]) <= Scale

\* a batch whose largest counter is above 1 and in which some task has a
\* dependency score strictly between 0 and 1
C9_Witness ==
    /\ MapBuilt
    /\ max_dependents > 1
    /\ \E i \in DOMAIN valid_tasks :
          /\ DependencyScore(valid_tasks[i]) > 0
          /\ DependencyScore(valid_tasks[i]) < Scale

SkippedWarnings == {k \in DOMAIN Result.warnings : Result.warnings[k].kind = "skipped"}

\* a run that has not returned can take its next step: the conditions under
\* which the steps of analyze_tasks are taken cover every position
StepPossible ==
    \/ pc = "start"
    \/ pc = "validate"
    \/ /\ pc = "detect"
       /\ \/ \E task_id \in DOMAIN color : color[task_id] = WHITE
          \/ \A task_id \in DOMAIN color : color[task_id] # WHITE
    \/ pc = "depmap"
    \/ /\ pc = "score"
       /\ Len(analyzed_tasks) <= Len(valid_tasks)

KindRank(kind) ==
    IF kind \in {"skipped", "default_title"} THEN 1
    ELSE IF kind = "cycle" THEN 2
    ELSE IF kind = "missing" THEN 3
    ELSE 4

\* the per-task validation warning the i-th input task gives rise to, if any
ValidationKind(i) ==
    IF batch[i].id = "" THEN "skipped"
    ELSE IF batch[i].title = "" THEN "default_title"
    ELSE "none"

WarnedTasks == {i \in DOMAIN batch : ValidationKind(i) # "none"}

\* C11: the returned warnings are the per-task validation warnings (missing
\* identifier, defaulted title), one per defective task in input index order,
\* then at most one circular-dependency warning, then at most one
\* missing-dependency warning; when every task was dropped they are the
\* validation warnings followed by the single 'no valid tasks' warning, with
\* no cycle or missing-dependency warning.
C11_WarningsInOrder ==
    (pc = "done" /\ batch # <<>>) =>
        LET w == Result.warnings
            nv == Cardinality(WarnedTasks)
        IN
        /\ Len(w) >= nv
        /\ \A k \in 1..nv :
              /\ KindRank(w[k].kind) = 1
              /\ w[k].idx + 1 \in WarnedTasks
              /\ w[k].kind = ValidationKind(w[k].idx + 1)
              /\ k > 1 => w[k - 1].idx < w[k].idx
        /\ \A k \in (nv + 1)..Len(w) :
              /\ KindRank(w[k].kind) > 1
              /\ k > nv + 1 => KindRank(w[k - 1].kind) < KindRank(w[k].kind)
        /\ Result.has_cycles =>
              \A k \in DOMAIN w : w[k].kind # "no_valid"
        /\ ~Result.has_cycles =>
              /\ Len(w) = nv + 1
              /\ w[Len(w)].kind = "no_valid"
              /\ \A i \in DOMAIN batch : batch[i].id = ""

\* a result with a skipped task after a retitled one, a cycle warning and a
\* missing-dependency warning
C11_Witness ==
    /\ Returned_Full
    /\ Len(Result.warnings) = 4
    /\ Result.warnings[1].kind = "default_title"
    /\ Result.warnings[2].kind = "skipped"
    /\ Result.warnings[3].kind = "cycle"
    /\ Result.warnings[4].kind = "missing"
\* the input task an analyzed entry was made from
RawOf(entry) == batch[CHOOSE i \in DOMAIN batch : batch[i].id = entry.id]

\* C12: every returned entry has importance in 1..10 and estimated hours of
\* at least 0: an importance above 10 is returned as 10, one below 1 as 1, a
\* negative effort as 0, a missing importance as 5, a missing effort as 1, a
\* dependency field that is not a list as the empty list, and values already
\* in range are returned unchanged.
C12_EntriesNormalized ==
    (pc = "done" /\ UniqueIds) =>
        \A k \in DOMAIN Result.analyzed :
            LET e == Result.analyzed[k]
                raw == RawOf(e)
            IN
            /\ e.importance \in 1..10
            /\ e.estimated_hours >= 0
            /\ e.importance =
                  (IF raw.importance = None THEN 5
                   ELSE IF raw.importance[1] > 10 THEN 10
                   ELSE IF raw.importance[1] < 1 THEN 1
                   ELSE raw.importance[1])
            /\ e.estimated_hours =
                  (IF raw.estimated_hours = None THEN 1
                   ELSE IF raw.estimated_hours[1] < 0 THEN 0
                   ELSE raw.estimated_hours[1])
            /\ e.dependencies =
                  (IF raw.dependencies = None THEN <<>> ELSE raw.dependencies[1])

\* a result with an entry made from a task without importance, effort and
\* dependency list, one from an importance above 10 and a negative effort,
\* and one from an importance below 1 and an effort that was in range
C12_Witness ==
    /\ Returned_Full
    /\ UniqueIds
    /\ \E k \in DOMAIN Result.analyzed :
          LET raw == RawOf(Result.analyzed[k]) IN
          raw.importance = None /\ raw.estimated_hours = None /\ raw.dependencies = None
    /\ \E k \in DOMAIN Result.analyzed :
          LET raw == RawOf(Result.analyzed[k]) IN
          /\ raw.importance # None /\ raw.importance[1] > 10
          /\ raw.estimated_hours # None /\ raw.estimated_hours[1] < 0
    /\ \E k \in DOMAIN Result.analyzed :
          LET raw == RawOf(Result.analyzed[k]) IN
          /\ raw.importance # None /\ raw.importance[1] < 1
          /\ raw.estimated_hours # None
          /\ raw.estimated_hours[1] = Result.analyzed[k].estimated_hours
\* the label the thresholds give to a score in hundredths of a point
LabelOfScore(score) ==
    IF score >= 7500 THEN "High" ELSE IF score >= 5000 THEN "Medium" ELSE "Low"

\* C13: in every returned entry the priority label agrees with the score of
\* the same entry: High exactly when score >= 75, Medium exactly when
\* 50 <= score < 75, Low exactly when score < 50.
C13_LabelAgreesWithScore ==
    pc = "done" =>
        \A k \in DOMAIN Result.analyzed :
            Result.analyzed[k].priority_label = LabelOfScore(Result.analyzed[k].score)
\* C14: for a count N >= 0, get_top_suggestions returns the first
\* min(N, length) entries of the sorted analyzed list in the same order, the
\* k-th carrying rank k and every field of the analyzed entry; and the
\* confidence is High exactly when the label is High, Medium exactly when the
\* label is Medium, and Moderate exactly when the label is Low.
C14_SuggestionsArePrefix ==
    (suggestions # None /\ suggestions[1].count >= 0) =>
        LET out == suggestions[1].out
            a == Result.analyzed
        IN
        /\ Len(out) = Min(suggestions[1].count, Len(a))
        /\ \A k \in DOMAIN out :
              /\ out[k].rank = k
              /\ \A f \in DOMAIN a[k] : out[k][f] = a[k][f]
              /\ out[k].confidence = "High" <=> out[k].priority_label = "High"
              /\ out[k].confidence = "Medium" <=> out[k].priority_label = "Medium"
              /\ out[k].confidence = "Moderate" <=> out[k].priority_label = "Low"
\* C15: calculate_urgency_score returns, for d days until due: status overdue
\* with late_by = |d| and score 1 + min(|d|/7, 1), above 1, at most 2 and
\* exactly 2 from 7 days overdue on, when d < 0; due_today and exactly 1 when
\* d = 0; urgent when 1 <= d <= 3; normal and a score in [0, 1] that is 0 from
\* 30 days on when d > 3; 0.5 with no_due_date for an absent or empty date and
\* with invalid_date for an unparseable one.
C15_UrgencyByBranch ==
    probe # None =>
        LET due == probe[1].task.due_date
            meta == probe[1].out.details.urgency_meta
            d == due.days
        IN
        /\ due.kind = "none" =>
              meta.status = "no_due_date" /\ 2 * meta.score = Scale
        /\ due.kind = "invalid" =>
              meta.status = "invalid_date" /\ 2 * meta.score = Scale
        /\ (due.kind = "date" /\ d < 0) =>
              /\ meta.status = "overdue"
              /\ meta.late_by = 0 - d
              /\ 7 * meta.score = 7 * Scale + Min((0 - d) * Scale, 7 * Scale)
              /\ meta.score > Scale
              /\ meta.score <= 2 * Scale
              /\ d <= 0 - 7 => meta.score = 2 * Scale
        /\ (due.kind = "date" /\ d = 0) =>
              meta.status = "due_today" /\ meta.score = Scale
        /\ (due.kind = "date" /\ d >= 1 /\ d <= 3) => meta.status = "urgent"
        /\ (due.kind = "date" /\ d > 3) =>
              /\ meta.status = "normal"
              /\ meta.score >= 0
              /\ meta.score <= Scale
              /\ d >= 30 => meta.score = 0

\* a task more than 7 days overdue, whose bonus is saturated
C15_Witness ==
    /\ probe # None
    /\ probe[1].task.due_date.kind = "date"
    /\ probe[1].task.due_date.days < 0 - 7
    /\ probe[1].out.details.urgency_meta.late_by > 7
    /\ probe[1].out.details.urgency_meta.score = 2 * Scale

\* the final score of an entry under the weights w, from the normalized
\* attributes the entry carries and the dependency map of the run
ScoreUnder(w, entry) ==
    Round2(w.u * calculate_urgency_score(entry.due_date).score
           + w.i * normalize_importance(entry.importance)
           + w.e * calculate_effort_score(entry.estimated_hours)
           + w.d * calculate_dependency_score(entry.id, dependency_map, max_dependents))

\* C16: for a non-empty batch, with a custom weight override every score is
\* computed from the four weights of the override alone, whatever strategy is
\* named, and the override is returned as the weights of the result; without
\* an override the preset of the named strategy is used and returned.
C16_OverrideReplacesPreset ==
    (pc = "done" /\ batch # <<>>) =>
        LET used == IF custom_weights # None THEN custom_weights[1]
                    ELSE STRATEGIES[strategy]
        IN
        /\ Result.weights = used
        /\ \A k \in DOMAIN Result.analyzed :
              Result.analyzed[k].score = ScoreUnder(used, Result.analyzed[k])

\* a result computed under an override, with an entry whose score is not the
\* one the preset of the named strategy gives
C16_Witness ==
    /\ Returned_Full
    /\ custom_weights # None
    /\ Result.weights = custom_weights[1]
    /\ Result.weights # STRATEGIES[strategy]
    /\ \E k \in DOMAIN Result.analyzed :
          Result.analyzed[k].score # ScoreUnder(STRATEGIES[strategy], Result.analyzed[k])
\* C17: a custom weight override is accepted only when its key set is
\* exactly {u, i, e, d} and every value is in [0, 1]; an override with a
\* missing key, an extra key or a value out of range is rejected before the
\* engine runs.
C17_OverrideExactKeys ==
    (pc \notin {"request", "rejected"} /\ custom_weights # None) =>
        /\ DOMAIN custom_weights[1] = required_keys
        /\ \A key \in DOMAIN custom_weights[1] :
              0 <= custom_weights[1][key] /\ custom_weights[1][key] <= 100
\* the steps of one run in the order of the code
StepRank(p) ==
    IF p = "start" THEN 0
    ELSE IF p = "validate" THEN 1
    ELSE IF p = "detect" THEN 2
    ELSE IF p = "depmap" THEN 3
    ELSE IF p = "score" THEN 4
    ELSE 5

\* C18: within one run on a non-empty batch the steps happen in the order
\* validation, cycle detection, construction of the map, scoring, sort: no
\* step is gone back to, so detection and map construction each run once and
\* are over before the first task is scored; every task is scored with the
\* one map, maximum and cycle set; the sort starts only when every surviving
\* task has been scored; and no task record, map or cycle set changes once
\* scoring has begun.
C18_StepsInOrder ==
    /\ [](/\ pc \in {"start", "validate"} => (color = <<>> /\ cycles = <<>>)
          /\ pc \in {"start", "validate", "detect"} => dependency_map = <<>>
          /\ pc \in {"start", "validate", "detect", "depmap"} => analyzed_tasks = <<>>
          /\ pc = "score" =>
                \A k \in DOMAIN analyzed_tasks :
                    analyzed_tasks[k] = AnalyzedTask(valid_tasks[k], weights, dependency_map,
                                                    max_dependents, tasks_in_cycles))
    /\ [][/\ StepRank(pc') >= StepRank(pc)
          /\ pc = "validate" => pc' \in {"detect", "done"}
          /\ pc = "detect" => (pc' \in {"detect", "depmap"} /\ valid_tasks' = valid_tasks)
          /\ pc = "depmap" => (pc' = "score" /\ valid_tasks' = valid_tasks
                               /\ cycles' = cycles /\ tasks_in_cycles' = tasks_in_cycles)
          /\ pc = "score" =>
                /\ pc' \in {"score", "done"}
                /\ valid_tasks' = valid_tasks
                /\ dependency_map' = dependency_map
                /\ max_dependents' = max_dependents
                /\ cycles' = cycles
                /\ tasks_in_cycles' = tasks_in_cycles
                /\ pc' = "score" =>
                      /\ Len(analyzed_tasks') = Len(analyzed_tasks) + 1
                      /\ SubSeq(analyzed_tasks', 1, Len(analyzed_tasks)) = analyzed_tasks
                /\ pc' = "done" => Len(analyzed_tasks) = Len(valid_tasks)]_vars

\* the scoring loop half way through a batch that has a cycle and a map
C18_Witness ==
    /\ pc = "score"
    /\ analyzed_tasks # <<>>
    /\ Len(analyzed_tasks) < Len(valid_tasks)
    /\ dependency_map # <<>>
    /\ cycles # <<>>
\* the days until due of the dates the urgency score is compared over
ComparedDays == (0 - MaxLate)..MaxDays

\* C19: the urgency score is non-increasing in the number of days until the
\* due date: of two parsed due dates the earlier never gets a lower urgency
\* score than the later, also across the boundaries between the overdue,
\* due_today, urgent and normal branches.
C19_UrgencyMonotone ==
    (probe # None /\ probe[1].task.due_date.kind = "date") =>
        LET d == probe[1].task.due_date.days
            u == probe[1].out.details.urgency_score
        IN
        \A other \in ComparedDays :
            /\ other < d => calculate_urgency_score(DueIn(other)).score >= u
            /\ other > d => calculate_urgency_score(DueIn(other)).score <= u

\* a date on the first day of the normal branch, which scores strictly less
\* than the last day of the urgent branch and strictly more than the day after
C19_Witness ==
    /\ probe # None
    /\ probe[1].task.due_date = DueIn(4)
    /\ probe[1].out.details.status = "normal"
    /\ calculate_urgency_score(DueIn(3)).status = "urgent"
    /\ calculate_urgency_score(DueIn(3)).score > probe[1].out.details.urgency_score
    /\ calculate_urgency_score(DueIn(5)).score < probe[1].out.details.urgency_score
\* the calls of dfs that found their node white and expanded it
Expansions(x) == {j \in DOMAIN calls : calls[j].node = x /\ calls[j].color[x] = WHITE}

\* C20: at every call of dfs the path lists exactly the gray nodes, without
\* duplicates and in the order they were entered (the path is that of the
\* call that expanded its last node, followed by that node); so a gray node
\* that is revisited occurs in the path; a black node is never recoloured;
\* each node is expanded at most once; and the search ends with every batch
\* identifier black -- self-dependencies and repeated entries included.
C20_PathIsGraySet ==
    /\ [](/\ pc = "detect" =>
                /\ \A j \in DOMAIN calls :
                      LET c == calls[j] IN
                      /\ Range(c.path) = {x \in DOMAIN c.color : c.color[x] = GRAY}
                      /\ \A a, b \in DOMAIN c.path : a # b => c.path[a] # c.path[b]
                      /\ c.path # <<>> =>
                            \E i \in 1..(j - 1) :
                                /\ calls[i].node = c.path[Len(c.path)]
                                /\ calls[i].color[calls[i].node] = WHITE
                                /\ calls[i].path = SubSeq(c.path, 1, Len(c.path) - 1)
                      /\ c.color[c.node] = GRAY => Index(c.path, c.node) > 0
                      /\ \A x \in DOMAIN c.color :
                            c.color[x] = BLACK =>
                                /\ color[x] = BLACK
                                /\ j < Len(calls) => calls[j + 1].color[x] = BLACK
                /\ \A x \in DOMAIN color : Cardinality(Expansions(x)) <= 1
                /\ \A x \in DOMAIN color : color[x] \in {WHITE, BLACK}
          /\ DetectionOver => \A x \in DOMAIN color : color[x] = BLACK)
    /\ [][pc' = "detect" =>
            \A x \in DOMAIN color : color[x] = BLACK => color'[x] = BLACK]_vars

\* a search that has revisited the first node of a path of two nodes, which
\* closes a cycle of two tasks, and then the last node of the same path, which
\* depends on itself
C20_Witness ==
    /\ pc = "detect"
    /\ \E j \in DOMAIN calls :
          /\ calls[j].color[calls[j].node] = GRAY
          /\ Len(calls[j].path) = 2
          /\ calls[j].path[1] = calls[j].node
          /\ j < Len(calls)
          /\ calls[j + 1].color[calls[j + 1].node] = GRAY
          /\ calls[j + 1].path[2] = calls[j + 1].node
    /\ Len(cycles) = 2

=============================================================================
